---- MODULE Spec2Model ----
(***************************************************************************)
(* A model of fastf1/ergast.py: the selector builder (Ergast.select), the  *)
(* selector-scoped accessors (ErgastSelectionObject), the root-level fetch *)
(* functions and the result normalizer (ErgastResultFrame).                *)
(*                                                                         *)
(* Python values are tagged tuples, so that values of different Python     *)
(* types are always comparable:                                            *)
(*   <<"none">>       None                                                 *)
(*   <<"str", s>>     a str; s is a sequence of text pieces (a literal of  *)
(*                    the source is one piece, a digit or sign of a number *)
(*                    is one piece each)                                   *)
(*   <<"int", n>>     an int                                               *)
(*   <<"float", n>>   a float (whole-numbered in this model)               *)
(*   <<"dict", f>>    a dict; f is a function from keys to values          *)
(*   <<"list", q>>    a list of values                                     *)
(*   <<"item", a>>    an _ErgastResponseItem whose _response is the object *)
(*                    at address a of the heap                             *)
(*   <<"frame", r>>   an ErgastResultFrame                                 *)
(***************************************************************************)
EXTENDS Integers, Sequences, FiniteSets, TLC

VARIABLES
    version,    \* fastf1.version.__version__, fixed at import
    selector,   \* ErgastSelectionObject._selector of the facade in use
    pc,         \* "idle", "await" (a request is with the fetch collaborator), "done"
    call,       \* the function being called and its arguments
    stage,      \* which request of the call is awaited (fetch_weekend issues two)
    url,        \* the local variable url of the running call
    local,      \* fetch_weekend's local variable data between its two requests
    requests,   \* the requests the running call has handed to the fetch collaborator
    reply,      \* the last response the fetch collaborator returned
    warns,      \* the warnings the running call emitted through warnings.warn
    outcome,    \* how the call ended: a returned value or a raised exception
    payload,    \* the records handed to the normalizer, as they were before the call
    heap,       \* the dict objects the normalizer works on, by address
    response,   \* the list handed to ErgastResultFrame: addresses of its records
    frame,      \* the ErgastResultFrame built from response
    recovered,  \* what get_ergast_response returned
    npc         \* normalizer scenario position: "start", "built", "read"

facadeVars == <<version, selector, pc, call, stage, url, local, requests, reply, warns, outcome>>
normVars == <<payload, heap, response, frame, recovered, npc>>
vars == <<facadeVars, normVars>>

-----------------------------------------------------------------------------
(* Python values *)

None == <<"none">>
Str(s) == <<"str", s>>
IntV(n) == <<"int", n>>
Flt(n) == <<"float", n>>
Dict(f) == <<"dict", f>>
List(q) == <<"list", q>>
Item(a) == <<"item", a>>
Frame(r) == <<"frame", r>>

Tag(v) == v[1]
Val(v) == v[2]

EmptyDict == [k \in {} |-> None]

\* bool(v), as the walrus conditions of _prepare_response evaluate it
Truthy(v) ==
    CASE Tag(v) = "none" -> FALSE
      [] Tag(v) = "str" -> Len(Val(v)) > 0
      [] Tag(v) = "int" -> Val(v) # 0
      [] Tag(v) = "float" -> Val(v) # 0
      [] Tag(v) = "dict" -> DOMAIN Val(v) # {}
      [] Tag(v) = "list" -> Len(Val(v)) > 0
      [] OTHER -> TRUE

\* d.get(key, default) on a dict value
DictGet(d, key, default) ==
    IF key \in DOMAIN Val(d) THEN Val(d)[key] ELSE default

\* the dict d without key (dict.pop's effect on d)
DictWithout(d, key) ==
    Dict([k \in DOMAIN Val(d) \ {key} |-> Val(d)[k]])

\* d.update(u): the keys of u win
DictUpdate(d, u) ==
    Dict([k \in DOMAIN Val(d) \cup DOMAIN u |-> IF k \in DOMAIN u THEN u[k] ELSE Val(d)[k]])

-----------------------------------------------------------------------------
(* results of calls: a returned value or a raised exception *)

Returned(v) == [kind |-> "return", exc |-> "", msg |-> <<>>, value |-> v]
Raised(e, m) == [kind |-> "raise", exc |-> e, msg |-> m, value |-> None]
NoOutcome == [kind |-> "none", exc |-> "", msg |-> <<>>, value |-> None]

\* a subscript is a str key or an int index (0-based)
Key(k) == <<"key", k>>
Idx(n) == <<"idx", n>>

\* v[k], with Python's errors
Subscript(v, k) ==
    CASE Tag(v) = "dict" ->
            IF k[1] = "key" /\ k[2] \in DOMAIN Val(v)
            THEN Returned(Val(v)[k[2]])
            ELSE Raised("KeyError", <<k>>)
      [] Tag(v) = "list" ->
            IF k[1] # "idx"
            THEN Raised("TypeError", <<"list indices must be integers or slices, not str">>)
            ELSE IF k[2] \in 0..(Len(Val(v)) - 1)
                 THEN Returned(Val(v)[k[2] + 1])
                 ELSE Raised("IndexError", <<"list index out of range">>)
      [] OTHER -> Raised("TypeError", <<"object is not subscriptable">>)

\* v[path[1]][path[2]]...: the first failing subscript raises
RECURSIVE SubscriptPath(_, _)
SubscriptPath(v, path) ==
    IF path = <<>> THEN Returned(v)
    ELSE LET r == Subscript(v, Head(path))
         IN IF r.kind = "raise" THEN r ELSE SubscriptPath(r.value, Tail(path))

-----------------------------------------------------------------------------
(* text *)

DigitChars == <<"0", "1", "2", "3", "4", "5", "6", "7", "8", "9">>

\* str(n) of a natural number n
RECURSIVE NatToStr(_)
NatToStr(n) ==
    IF n < 10 THEN <<DigitChars[n + 1]>>
    ELSE NatToStr(n \div 10) \o <<DigitChars[(n % 10) + 1]>>

\* format(v) inside an f-string
Format(v) ==
    CASE Tag(v) = "str" -> Val(v)
      [] Tag(v) = "int" -> IF Val(v) < 0 THEN <<"-">> \o NatToStr(-Val(v)) ELSE NatToStr(Val(v))
      [] Tag(v) = "none" -> <<"None">>
      [] OTHER -> <<"<object>">>

DigitValue(c) == CHOOSE d \in 0..9 : DigitChars[d + 1] = c

IsDigits(s) == Len(s) > 0 /\ \A j \in 1..Len(s) : \E d \in 1..10 : DigitChars[d] = s[j]

RECURSIVE DigitsToNat(_)
DigitsToNat(s) ==
    IF s = <<>> THEN 0
    ELSE 10 * DigitsToNat(SubSeq(s, 1, Len(s) - 1)) + DigitValue(s[Len(s)])

\* float(v): of a numeric str its value, of an int the int, else ValueError or
\* TypeError (the numerals read here are whole numbers with an optional sign)
ToFloat(v) ==
    CASE Tag(v) = "int" -> Returned(Flt(Val(v)))
      [] Tag(v) = "float" -> Returned(v)
      [] Tag(v) = "str" ->
            LET s == Val(v)
            IN IF IsDigits(s) THEN Returned(Flt(DigitsToNat(s)))
               ELSE IF Len(s) > 1 /\ Head(s) = "-" /\ IsDigits(Tail(s))
                    THEN Returned(Flt(-DigitsToNat(Tail(s))))
                    ELSE Raised("ValueError", <<"could not convert string to float">>)
      [] OTHER -> Raised("TypeError", <<"float() argument must be a string or a real number">>)

-----------------------------------------------------------------------------
(* ErgastResultFrame: the result normalizer *)

MaxRecords == 2

HeapSet(h, a, d) == [h EXCEPT ![a] = d]

\* the state of the loop of _prepare_response: the heap, and the exception raised if any
Running(h) == [heap |-> h, err |-> NoOutcome]
Failed(h, e) == [heap |-> h, err |-> e]

\* a record handed to the normalizer shares its objects with the caller
deepcopy_alias(h, resp) == [heap |-> h, data |-> resp]

\* copy.deepcopy(response): every record is copied into a new object (the records
\* of a decoded JSON list are distinct objects, so the memo never hits)
deepcopy(h, resp) ==
    [heap |-> h \o [k \in 1..Len(resp) |-> h[resp[k]]],
     data |-> [k \in 1..Len(resp) |-> Len(h) + k]]

\* data[i].update({'Driver': ..., 'DriverNumber': ...}) when drv is truthy
UpdateDriver(h1, a, drv) ==
    IF ~Truthy(drv) THEN Running(h1)
    ELSE IF Tag(drv) # "dict"
         THEN Failed(h1, Raised("AttributeError", <<"object has no attribute 'get'">>))
         ELSE Running(HeapSet(h1, a, DictUpdate(h1[a],
                 [Driver |-> DictGet(drv, "code", Str(<<>>)),
                  DriverNumber |-> DictGet(drv, "permanentNumber", Str(<<>>))])))

\* if drv := data[i].pop('Driver', None): data[i].update({...})
PopDriver(st, a) ==
    UpdateDriver(HeapSet(st.heap, a, DictWithout(st.heap[a], "Driver")), a,
                 DictGet(st.heap[a], "Driver", None))

\* data[i].update({'Constructors': [...]}) when constr is truthy
UpdateConstructors(h1, a, constr) ==
    IF ~Truthy(constr) THEN Running(h1)
    ELSE IF Tag(constr) # "list" \/ \E j \in 1..Len(Val(constr)) : Tag(Val(constr)[j]) # "dict"
         THEN Failed(h1, Raised("AttributeError", <<"object has no attribute 'get'">>))
         ELSE Running(HeapSet(h1, a, DictUpdate(h1[a],
                 [Constructors |-> List([j \in 1..Len(Val(constr)) |->
                                           DictGet(Val(constr)[j], "name", Str(<<>>))])])))

\* if constr := data[i].pop('Constructors', None): data[i].update({...})
PopConstructors(st, a) ==
    IF st.err.kind = "raise" THEN st
    ELSE UpdateConstructors(HeapSet(st.heap, a, DictWithout(st.heap[a], "Constructors")), a,
                            DictGet(st.heap[a], "Constructors", None))

\* the update of the Location branch, with float(...) of lat and long evaluated
UpdateLocationWith(h1, a, loc, lat, long) ==
    IF lat.kind = "raise" THEN Failed(h1, lat)
    ELSE IF long.kind = "raise" THEN Failed(h1, long)
    ELSE Running(HeapSet(h1, a, DictUpdate(h1[a],
            [Lat |-> lat.value,
             Long |-> long.value,
             Locality |-> DictGet(loc, "locality", Str(<<>>)),
             Country |-> DictGet(loc, "country", Str(<<>>))])))

\* data[i].update({'Lat': ..., 'Long': ..., ...}) when loc is truthy
UpdateLocation(h1, a, loc) ==
    IF ~Truthy(loc) THEN Running(h1)
    ELSE IF Tag(loc) # "dict"
         THEN Failed(h1, Raised("AttributeError", <<"object has no attribute 'get'">>))
         ELSE UpdateLocationWith(h1, a, loc,
                                 ToFloat(DictGet(loc, "lat", IntV(0))),
                                 ToFloat(DictGet(loc, "long", IntV(0))))

\* if loc := data[i].pop('Location', None): data[i].update({...})
PopLocation(st, a) ==
    IF st.err.kind = "raise" THEN st
    ELSE UpdateLocation(HeapSet(st.heap, a, DictWithout(st.heap[a], "Location")), a,
                        DictGet(st.heap[a], "Location", None))

\* data[i]['__ErgastResponse'] = _ErgastResponseItem(response[i])
AttachResponse(st, a, orig) ==
    IF st.err.kind = "raise" THEN st
    ELSE Running(HeapSet(st.heap, a, DictUpdate(st.heap[a], [__ErgastResponse |-> Item(orig)])))

\* one pass of the loop body, for the record at index i (1-based here)
PrepareRecord(st, data, resp, i) ==
    AttachResponse(PopLocation(PopConstructors(PopDriver(st, data[i]), data[i]), data[i]),
                   data[i], resp[i])

\* a loop that stops one record early: range(len(data) - 1)
RECURSIVE PrepareLoopOffByOne(_, _, _, _)
PrepareLoopOffByOne(st, data, resp, i) ==
    IF i > Len(data) - 1 \/ st.err.kind = "raise" THEN st
    ELSE PrepareLoopOffByOne(PrepareRecord(st, data, resp, i), data, resp, i + 1)

\* for i in range(len(data)): ...
RECURSIVE PrepareLoop(_, _, _, _)
PrepareLoop(st, data, resp, i) ==
    IF i > Len(data) \/ st.err.kind = "raise" THEN st
    ELSE PrepareLoop(PrepareRecord(st, data, resp, i), data, resp, i + 1)

\* what _prepare_response hands back: the heap, the exception if any, and data
Prepared(st, data) == [heap |-> st.heap, err |-> st.err, data |-> data]

\* the loop of _prepare_response over the copy c
PrepareCopy(c, resp) == Prepared(PrepareLoop(Running(c.heap), c.data, resp, 1), c.data)

\* ErgastResultFrame._prepare_response(response), on the heap h
_prepare_response(h, resp) == PrepareCopy(deepcopy(h, resp), resp)

\* super().__init__(data): the rows are the prepared dicts, the columns of the
\* DataFrame are the keys of all of them
DataFrame(p) ==
    IF p.err.kind = "raise" THEN [heap |-> p.heap, result |-> p.err]
    ELSE [heap |-> p.heap,
          result |-> Returned(Frame(
              [columns |-> UNION {DOMAIN Val(p.heap[p.data[k]]) : k \in 1..Len(p.data)},
               rows |-> [k \in 1..Len(p.data) |-> p.heap[p.data[k]]]]))]

\* ErgastResultFrame(None, response=resp)
ErgastResultFrame(h, resp) == DataFrame(_prepare_response(h, resp))

Ref(a) == <<"ref", a>>

\* ErgastResultFrame.get_ergast_response(): the objects the items refer to, or
\* None (the implicit return) when the frame has no '__ErgastResponse' column
get_ergast_response(f) ==
    IF "__ErgastResponse" \in Val(f).columns
    THEN List([k \in 1..Len(Val(f).rows) |-> Ref(Val(Val(f).rows[k])["__ErgastResponse"][2])])
    ELSE None

-----------------------------------------------------------------------------
(* module constants, requests and responses *)

base_url == <<"https://ergast.com/api/f1">>

\* _headers = {'User-Agent': f'FastF1/{__version__}'}
_headers == Dict("User-Agent" :> Str(<<"FastF1/">> \o version))

\* Cache.requests_get(url, headers=hdrs) issued twice, as a retry would
requests_get_twice(reqs, u, hdrs) ==
    reqs \o <<[method |-> "GET", url |-> u, headers |-> hdrs, data |-> None],
              [method |-> "GET", url |-> u, headers |-> hdrs, data |-> None]>>

\* Cache.requests_get(url, headers=hdrs): one GET handed to the fetch collaborator
requests_get(reqs, u, hdrs) ==
    Append(reqs, [method |-> "GET", url |-> u, headers |-> hdrs, data |-> None])

\* Cache.requests_post(url, data=body): no headers argument is passed
requests_post(reqs, u, body) ==
    Append(reqs, [method |-> "POST", url |-> u, headers |-> None, data |-> body])

\* r.content: bytes that are the UTF-8 JSON text of a value, or that are not JSON
JsonBytes(v) == <<"bytes", "json", v>>
BadBytes == <<"bytes", "garbage", None>>

\* json.loads(r.content.decode('utf-8'))
json_loads(content) ==
    IF content[2] = "json" THEN Returned(content[3])
    ELSE Raised("JSONDecodeError", <<"Expecting value">>)

Response(status, content) == [status_code |-> status, content |-> content]

-----------------------------------------------------------------------------
(* Ergast.select *)

\* if v is not None: selector += f"{prefix}{v}"
AddSegment(sel, prefix, v) ==
    IF v # None THEN sel \o prefix \o Format(v) ELSE sel

\* a select that puts the driver segment before the constructor segment
select_driver_first(season, round, circuit, constructor, driver) ==
    AddSegment(AddSegment(AddSegment(AddSegment(AddSegment(<<>>,
        <<"/">>, season), <<"/">>, round), <<"/circuits/">>, circuit),
        <<"/drivers/">>, driver), <<"/constructors/">>, constructor)

\* Ergast.select(season, round, circuit, constructor, driver): the selector of
\* the ErgastSelectionObject it returns
select(season, round, circuit, constructor, driver) ==
    AddSegment(AddSegment(AddSegment(AddSegment(AddSegment(<<>>,
        <<"/">>, season), <<"/">>, round), <<"/circuits/">>, circuit),
        <<"/constructors/">>, constructor), <<"/drivers/">>, driver)

-----------------------------------------------------------------------------
(* ErgastSelectionObject *)

\* a _get that takes every 2xx status for success
_get_any_2xx(u, r) ==
    IF r.status_code \in 200..299
    THEN IF json_loads(r.content).kind = "return" THEN json_loads(r.content)
         ELSE Raised("ErgastJsonException", <<"Failed to parse Ergast response (">> \o u \o <<")">>)
    ELSE Raised("ErgastInvalidRequest", <<"Invalid request to Ergast (">> \o u \o <<")">>)

\* ErgastSelectionObject._get(url), once the collaborator has returned r
_get(u, r) ==
    IF r.status_code = 200
    THEN IF json_loads(r.content).kind = "return" THEN json_loads(r.content)
         ELSE Raised("ErgastJsonException", <<"Failed to parse Ergast response (">> \o u \o <<")">>)
    ELSE Raised("ErgastInvalidRequest", <<"Invalid request to Ergast (">> \o u \o <<")">>)

\* the subscripts each accessor applies to the decoded response
AccessorPath(name) ==
    CASE name = "get_circuits" -> <<Key("MRData"), Key("CircuitTable"), Key("Circuits")>>
      [] name = "get_driver_standings" ->
            <<Key("MRData"), Key("StandingsTable"), Key("StandingsLists"), Idx(0),
              Key("DriverStandings")>>
      [] name = "get_constructor_standings" ->
            <<Key("MRData"), Key("StandingsTable"), Key("StandingsLists"), Idx(0),
              Key("ConstructorStandings")>>

\* the last part of the URL each accessor requests
AccessorEndpoint(name) ==
    CASE name = "get_circuits" -> <<"/circuits.json">>
      [] name = "get_driver_standings" -> <<"/driverStandings.json">>
      [] name = "get_constructor_standings" -> <<"/constructorStandings.json">>

\* resp = self._get(url)[...][...]: the subscripts, unless _get raised
Extract(got, path) ==
    IF got.kind = "raise" THEN got ELSE SubscriptPath(got.value, path)

\* return ErgastResultFrame(None, response=resp): the records of resp become the
\* objects 1..n of the heap
BuildFrame(resp) ==
    IF resp.kind = "raise" THEN [heap |-> <<>>, result |-> resp]
    ELSE IF Tag(resp.value) # "list"
         THEN [heap |-> <<>>, result |-> Raised("TypeError", <<"response is not a list">>)]
         ELSE ErgastResultFrame(Val(resp.value), [k \in 1..Len(Val(resp.value)) |-> k])

-----------------------------------------------------------------------------
(* the root-level fetch functions *)

\* _parse_json_response(r): the decoded value, or None and a warning
_parse_json_response(r) ==
    IF r.status_code = 200
    THEN [result |-> json_loads(r.content), warned |-> <<>>]
    ELSE [result |-> Returned(None),
          warned |-> <<[category |-> "UserWarning",
                        message |-> <<"Request returned: ">> \o NatToStr(r.status_code)]>>]

\* _parse_ergast(data), unless evaluating data raised
_parse_ergast(data) ==
    IF data.kind = "raise" THEN data
    ELSE SubscriptPath(data.value, <<Key("MRData"), Key("RaceTable"), Key("Races")>>)

\* the day and sel of fetch_results; an unlisted session binds neither
SessionDay(session) ==
    CASE session = Str(<<"Race">>) -> [bound |-> TRUE, day |-> <<"results">>, sel |-> "Results"]
      [] session = Str(<<"Qualifying">>) ->
            [bound |-> TRUE, day |-> <<"qualifying">>, sel |-> "QualifyingResults"]
      [] session \in {Str(<<"Sprint Qualifying">>), Str(<<"Sprint">>)} ->
            [bound |-> TRUE, day |-> <<"sprint">>, sel |-> "SprintResults"]
      [] OTHER -> [bound |-> FALSE, day |-> <<>>, sel |-> ""]

\* expr[path], unless evaluating expr raised
Then(res, path) ==
    IF res.kind = "raise" THEN res ELSE SubscriptPath(res.value, path)

\* body = {'longitude': loc['long'], 'latitude': loc['lat']}, from loc or its error
ElevationBody(loc, long, lat) ==
    IF loc.kind = "raise" THEN loc
    ELSE IF long.kind = "raise" THEN long
    ELSE IF lat.kind = "raise" THEN lat
    ELSE Returned(Dict([longitude |-> long.value, latitude |-> lat.value]))

\* data['Circuit']['Location']['alt'] = elevation
WithAlt(data, elevation) ==
    Dict([Val(data) EXCEPT !["Circuit"] =
            Dict([Val(@) EXCEPT !["Location"] = DictUpdate(@, [alt |-> elevation])])])

-----------------------------------------------------------------------------
(* the normalizer on its own: records as a decoded response holds them *)

Position == [position |-> Str(<<"1">>)]

DriverShapes ==
    {EmptyDict,
     [Driver |-> Dict(EmptyDict)],
     [Driver |-> Dict([code |-> Str(<<"HAM">>)])],
     [Driver |-> Dict([code |-> Str(<<"HAM">>), permanentNumber |-> Str(<<"4", "4">>)])]}

ConstructorsShapes ==
    {EmptyDict,
     [Constructors |-> List(<<>>)],
     [Constructors |-> List(<<Dict([name |-> Str(<<"Ferrari">>)]), Dict(EmptyDict)>>)]}

LocationShapes ==
    {EmptyDict,
     [Location |-> Dict(EmptyDict)],
     [Location |-> Dict([lat |-> Str(<<"5", "2">>)])],
     [Location |-> Dict([lat |-> Str(<<"-", "3", "7">>), long |-> Str(<<"1", "4", "4">>),
                         locality |-> Str(<<"Melbourne">>), country |-> Str(<<"Australia">>)])]}

\* the records of a response: top-level fields plus any of the three sub-structures
RawRecords ==
    {Dict(Position @@ d @@ c @@ l) :
        d \in DriverShapes, c \in ConstructorsShapes, l \in LocationShapes}

NoFrame == None

FacadeIdle ==
    /\ version \in {<<"3.0.0">>}
    /\ selector = <<>>
    /\ pc = "idle"
    /\ call = [name |-> "none", args |-> <<>>]
    /\ stage = 0
    /\ url = <<>>
    /\ local = None
    /\ requests = <<>>
    /\ reply = None
    /\ warns = <<>>
    /\ outcome = NoOutcome

InitNorm ==
    /\ FacadeIdle
    /\ \E n \in 0..MaxRecords : payload \in [1..n -> RawRecords]
    /\ heap = payload
    /\ response = [k \in 1..Len(payload) |-> k]
    /\ frame = NoFrame
    /\ recovered = None
    /\ npc = "start"

\* frame = ErgastResultFrame(None, response=response)
Construct ==
    /\ npc = "start"
    /\ \E r \in {ErgastResultFrame(heap, response)} :
          /\ heap' = r.heap
          /\ frame' = IF r.result.kind = "return" THEN r.result.value ELSE NoFrame
          /\ npc' = IF r.result.kind = "return" THEN "built" ELSE "failed"
    /\ UNCHANGED <<payload, response, recovered, facadeVars>>

\* recovered = frame.get_ergast_response()
GetErgastResponse ==
    /\ npc = "built"
    /\ recovered' = get_ergast_response(frame)
    /\ npc' = "read"
    /\ UNCHANGED <<payload, heap, response, frame, facadeVars>>

NextNorm == Construct \/ GetErgastResponse

SpecNorm == InitNorm /\ [][NextNorm]_vars

-----------------------------------------------------------------------------
(* the facade: a caller, and the fetch collaborator answering its requests *)

Seasons == {None, IntV(2021), Str(<<"current">>)}
Rounds == {None, IntV(0), Str(<<"last">>)}
CircuitIds == {None, Str(<<"monza">>)}
ConstructorIds == {None, Str(<<"ferrari">>)}
DriverIds == {None, Str(<<"alonso">>)}
Years == {IntV(2021)}
GrandsPrix == {IntV(7)}
Days == {Str(<<"qualifying">>), Str(<<"results">>), Str(<<"sprint">>)}
Sessions == {Str(<<"Race">>), Str(<<"Qualifying">>), Str(<<"Sprint">>),
             Str(<<"Sprint Qualifying">>), Str(<<"FP1">>)}
Statuses == {200, 204, 404}

CircuitRecord ==
    Dict([circuitId |-> Str(<<"monza">>),
          Location |-> Dict([lat |-> Str(<<"4", "5">>), long |-> Str(<<"9">>),
                             locality |-> Str(<<"Monza">>), country |-> Str(<<"Italy">>)])])

StandingRecord ==
    Dict([position |-> Str(<<"1">>),
          Driver |-> Dict([code |-> Str(<<"HAM">>), permanentNumber |-> Str(<<"4", "4">>)]),
          Constructors |-> List(<<Dict([name |-> Str(<<"Mercedes">>)])>>)])

ConstructorStandingRecord ==
    Dict([position |-> Str(<<"1">>),
          Constructor |-> Dict([name |-> Str(<<"Mercedes">>)])])

RaceRecord ==
    Dict([raceName |-> Str(<<"Italian Grand Prix">>),
          Circuit |-> CircuitRecord,
          Results |-> List(<<StandingRecord>>),
          QualifyingResults |-> List(<<StandingRecord>>),
          SprintResults |-> List(<<StandingRecord>>)])

MRData(table, key, v) == Dict([MRData |-> Dict(table :> Dict(key :> v))])

\* what the fetch collaborator may answer with
Contents ==
    {BadBytes,
     JsonBytes(Dict(EmptyDict)),
     JsonBytes(MRData("CircuitTable", "Circuits", List(<<>>))),
     JsonBytes(MRData("CircuitTable", "Circuits", List(<<CircuitRecord>>))),
     JsonBytes(MRData("StandingsTable", "StandingsLists", List(<<>>))),
     JsonBytes(MRData("StandingsTable", "StandingsLists",
                      List(<<Dict([DriverStandings |-> List(<<StandingRecord, StandingRecord>>),
                                   ConstructorStandings |-> List(<<ConstructorStandingRecord>>)])>>))),
     JsonBytes(MRData("RaceTable", "Races", List(<<>>))),
     JsonBytes(MRData("RaceTable", "Races", List(<<RaceRecord>>))),
     JsonBytes(Dict([elevation |-> IntV(162)]))}

Init ==
    /\ FacadeIdle
    /\ payload = <<>>
    /\ heap = <<>>
    /\ response = <<>>
    /\ frame = NoFrame
    /\ recovered = None
    /\ npc = "start"

\* the call is over: outcome is what the caller gets
Finish(o, w) ==
    /\ pc' = "done"
    /\ outcome' = o
    /\ warns' = warns \o w

\* ergast.select(season=..., round=..., ...): the caller keeps the facade returned
Select ==
    /\ pc = "idle"
    /\ \E season \in Seasons, round \in Rounds, circuit \in CircuitIds,
          constructor \in ConstructorIds, driver \in DriverIds :
          /\ call' = [name |-> "select",
                      args |-> <<season, round, circuit, constructor, driver>>]
          /\ selector' = select(season, round, circuit, constructor, driver)
    /\ UNCHANGED <<version, pc, stage, url, local, requests, reply, warns, outcome, normVars>>

\* an accessor builds its URL and hands one GET to the fetch collaborator
StartAccessor(name) ==
    /\ pc = "idle"
    /\ call' = [name |-> name, args |-> <<>>]
    /\ url' = base_url \o selector \o AccessorEndpoint(name)
    /\ requests' = requests_get(requests, url', _headers)
    /\ pc' = "await"
    /\ stage' = 1
    /\ UNCHANGED <<version, selector, local, reply, warns, outcome, normVars>>

CallGetCircuits == StartAccessor("get_circuits")

CallGetDriverStandings == StartAccessor("get_driver_standings")

CallGetConstructorStandings == StartAccessor("get_constructor_standings")

\* the collaborator returns to _get; the accessor subscripts the decoded response
\* and builds the frame
ReplyAccessor ==
    /\ pc = "await"
    /\ call.name \in {"get_circuits", "get_driver_standings", "get_constructor_standings"}
    /\ \E status \in Statuses, content \in Contents :
          /\ reply' = Response(status, content)
          /\ \E built \in {BuildFrame(Extract(_get(url, reply'), AccessorPath(call.name)))} :
                /\ Finish(built.result, <<>>)
                /\ IF built.result.kind = "return"
                   THEN /\ payload' = Val(Extract(_get(url, reply'), AccessorPath(call.name)).value)
                        /\ heap' = built.heap
                        /\ response' = [k \in 1..Len(payload') |-> k]
                        /\ frame' = built.result.value
                   ELSE UNCHANGED <<payload, heap, response, frame>>
    /\ UNCHANGED <<version, selector, call, stage, url, local, requests, recovered, npc>>

\* a root-level function builds its URL and hands one GET to the fetch collaborator
StartFetch(name, args, u) ==
    /\ pc = "idle"
    /\ call' = [name |-> name, args |-> args]
    /\ url' = u
    /\ requests' = requests_get(requests, u, _headers)
    /\ pc' = "await"
    /\ stage' = 1
    /\ UNCHANGED <<version, selector, local, reply, outcome, normVars>>

\* fetch_season(year)
CallFetchSeason ==
    \E year \in Years :
        /\ StartFetch("fetch_season", <<year>>,
                      base_url \o <<"/">> \o Format(year) \o <<".json">>)
        /\ UNCHANGED warns

ReplyFetchSeason ==
    /\ pc = "await"
    /\ call.name = "fetch_season"
    /\ \E status \in Statuses, content \in Contents :
          /\ reply' = Response(status, content)
          /\ \E parsed \in {_parse_json_response(reply')} :
                Finish(_parse_ergast(parsed.result), parsed.warned)
    /\ UNCHANGED <<version, selector, call, stage, url, local, requests, normVars>>

\* fetch_day(year, gp, day)
CallFetchDay ==
    \E year \in Years, gp \in GrandsPrix, day \in Days :
        /\ StartFetch("fetch_day", <<year, gp, day>>,
                      base_url \o <<"/">> \o Format(year) \o <<"/">> \o Format(gp)
                          \o <<"/">> \o Format(day) \o <<".json">>)
        /\ UNCHANGED warns

ReplyFetchDay ==
    /\ pc = "await"
    /\ call.name = "fetch_day"
    /\ \E status \in Statuses, content \in Contents :
          /\ reply' = Response(status, content)
          /\ \E parsed \in {_parse_json_response(reply')} :
                Finish(parsed.result, parsed.warned)
    /\ UNCHANGED <<version, selector, call, stage, url, local, requests, normVars>>

\* fetch_results(year, gp, session): with day unbound the call of fetch_day is
\* never made, its argument list raises UnboundLocalError
CallFetchResults ==
    \E year \in Years, gp \in GrandsPrix, session \in Sessions :
        IF SessionDay(session).bound
        THEN /\ StartFetch("fetch_results", <<year, gp, session>>,
                           base_url \o <<"/">> \o Format(year) \o <<"/">> \o Format(gp)
                               \o <<"/">> \o SessionDay(session).day \o <<".json">>)
             /\ UNCHANGED warns
        ELSE /\ pc = "idle"
             /\ call' = [name |-> "fetch_results", args |-> <<year, gp, session>>]
             /\ Finish(Raised("UnboundLocalError",
                              <<"local variable 'day' referenced before assignment">>), <<>>)
             /\ UNCHANGED <<version, selector, stage, url, local, requests, reply, normVars>>

\* return _parse_ergast(fetch_day(year, gp, day))[0][sel]
ReplyFetchResults ==
    /\ pc = "await"
    /\ call.name = "fetch_results"
    /\ \E status \in Statuses, content \in Contents :
          /\ reply' = Response(status, content)
          /\ \E parsed \in {_parse_json_response(reply')} :
                Finish(Then(_parse_ergast(parsed.result),
                            <<Idx(0), Key(SessionDay(call.args[3]).sel)>>),
                       parsed.warned)
    /\ UNCHANGED <<version, selector, call, stage, url, local, requests, normVars>>

DeprecationWarning ==
    [category |-> "FutureWarning",
     message |-> <<"fetch_weekend() is deprecated and will be",
                   "removed without a direct replacement in a ", "future version.">>]

ElevationUrl ==
    <<"https://www.mapcoordinates.net/admin/component/edit/",
      "Vpc_MapCoordinates_Advanced_GoogleMapCoords_Component/",
      "Component/json-get-elevation">>

\* fetch_weekend(year, gp): warns, then requests the race
CallFetchWeekend ==
    \E year \in Years, gp \in GrandsPrix :
        /\ StartFetch("fetch_weekend", <<year, gp>>,
                      base_url \o <<"/">> \o Format(year) \o <<"/">> \o Format(gp) \o <<".json">>)
        /\ warns' = Append(warns, DeprecationWarning)

\* data = _parse_ergast(_parse_json_response(...))[0]; the elevation request follows
\* unless one of the subscripts raised
ReplyFetchWeekendRace ==
    /\ pc = "await"
    /\ call.name = "fetch_weekend"
    /\ stage = 1
    /\ \E status \in Statuses, content \in Contents :
          /\ reply' = Response(status, content)
          /\ \E parsed \in {_parse_json_response(reply')} :
             \E data \in {Then(_parse_ergast(parsed.result), <<Idx(0)>>)} :
             \E loc \in {Then(data, <<Key("Circuit"), Key("Location")>>)} :
             \E body \in {ElevationBody(loc, Then(loc, <<Key("long")>>), Then(loc, <<Key("lat")>>))} :
                IF body.kind = "raise"
                THEN /\ Finish(body, parsed.warned)
                     /\ UNCHANGED <<url, local, requests, stage>>
                ELSE /\ url' = ElevationUrl
                     /\ local' = data.value
                     /\ requests' = requests_post(requests, ElevationUrl, body.value)
                     /\ stage' = 2
                     /\ warns' = warns \o parsed.warned
                     /\ UNCHANGED <<pc, outcome>>
    /\ UNCHANGED <<version, selector, call, normVars>>

\* res = _parse_json_response(...); data['Circuit']['Location']['alt'] = res['elevation']
ReplyFetchWeekendElevation ==
    /\ pc = "await"
    /\ call.name = "fetch_weekend"
    /\ stage = 2
    /\ \E status \in Statuses, content \in Contents :
          /\ reply' = Response(status, content)
          /\ \E parsed \in {_parse_json_response(reply')} :
             \E elevation \in {Then(parsed.result, <<Key("elevation")>>)} :
                Finish(IF elevation.kind = "raise" THEN elevation
                       ELSE Returned(WithAlt(local, elevation.value)),
                       parsed.warned)
    /\ UNCHANGED <<version, selector, call, stage, url, local, requests, normVars>>

\* the caller takes the result and is free to call again
Return ==
    /\ pc = "done"
    /\ pc' = "idle"
    /\ call' = [name |-> "none", args |-> <<>>]
    /\ stage' = 0
    /\ url' = <<>>
    /\ local' = None
    /\ requests' = <<>>
    /\ reply' = None
    /\ warns' = <<>>
    /\ outcome' = NoOutcome
    /\ UNCHANGED <<version, selector, normVars>>

Next ==
    \/ Select
    \/ CallGetCircuits
    \/ CallGetDriverStandings
    \/ CallGetConstructorStandings
    \/ ReplyAccessor
    \/ CallFetchSeason
    \/ ReplyFetchSeason
    \/ CallFetchDay
    \/ ReplyFetchDay
    \/ CallFetchResults
    \/ ReplyFetchResults
    \/ CallFetchWeekend
    \/ ReplyFetchWeekendRace
    \/ ReplyFetchWeekendElevation
    \/ Return

Spec == Init /\ [][Next]_vars

-----------------------------------------------------------------------------
(* properties *)

Accessors == {"get_circuits", "get_driver_standings", "get_constructor_standings"}

SingleEndpoint == Accessors \cup {"fetch_season", "fetch_day", "fetch_results"}

RecognizedSessions ==
    {Str(<<"Race">>), Str(<<"Qualifying">>), Str(<<"Sprint">>), Str(<<"Sprint Qualifying">>)}

\* the 200 response decoded to a document whose StandingsLists is an empty list
EmptyStandingsReply ==
    /\ reply.status_code = 200
    /\ Then(json_loads(reply.content),
            <<Key("MRData"), Key("StandingsTable"), Key("StandingsLists")>>) = Returned(List(<<>>))

\* C1: a standings query whose 200 response has an empty StandingsLists fails
\* with the dedicated EmptyStandings error, not with a generic index error.
EmptyStandingsRaised ==
    (/\ pc = "done"
     /\ call.name \in {"get_driver_standings", "get_constructor_standings"}
     /\ EmptyStandingsReply)
    => (outcome.kind = "raise" /\ outcome.exc = "EmptyStandings")

\* C2: on every status other than 200 fetch_season warns and returns an absent or
\* empty result; it does not raise.
SeasonFetchDegrades ==
    (pc = "done" /\ call.name = "fetch_season" /\ reply.status_code # 200)
    => (/\ outcome.kind = "return"
        /\ outcome.value \in {None, List(<<>>)}
        /\ warns # <<>>)

\* C3: fetch_results with a session that is none of the four recognized ones fails
\* with the dedicated UnrecognizedSession error, before any request is issued.
UnrecognizedSessionRaised ==
    (pc = "done" /\ call.name = "fetch_results" /\ call.args[3] \notin RecognizedSessions)
    => (/\ outcome.kind = "raise"
        /\ outcome.exc = "UnrecognizedSession"
        /\ requests = <<>>)

\* C5: every request handed to the fetch collaborator, GET or POST, carries the
\* header User-Agent: FastF1/<version>.
EveryRequestIdentifiesItself ==
    \A k \in 1..Len(requests) :
        /\ Tag(requests[k].headers) = "dict"
        /\ "User-Agent" \in DOMAIN Val(requests[k].headers)
        /\ Val(requests[k].headers)["User-Agent"] = Str(<<"FastF1/">> \o version)

\* the text a filter value contributes to the selector
FilterText(v) ==
    CASE v = IntV(2021) -> <<"2", "0", "2", "1">>
      [] v = IntV(0) -> <<"0">>
      [] OTHER -> Val(v)

\* the segment of one filter: nothing when the filter is absent
Segment(prefix, v) == IF v = None THEN <<>> ELSE <<prefix>> \o FilterText(v)

\* C7: the selector select produces is the concatenation, in the order season,
\* round, circuit, constructor, driver, of one segment per filter that is not
\* None and of nothing for an absent one; with no filter it is empty.
SelectorIsOrderedSegments ==
    call.name = "select" =>
        selector = Segment("/", call.args[1]) \o Segment("/", call.args[2])
                     \o Segment("/circuits/", call.args[3])
                     \o Segment("/constructors/", call.args[4])
                     \o Segment("/drivers/", call.args[5])

\* select was called with all five filters, one of them the integer 0
SelectedAllFilters ==
    /\ call.name = "select"
    /\ \A k \in 1..5 : call.args[k] # None
    /\ call.args[2] = IntV(0)
    /\ Len(selector) = 13

\* u occurs in m as a run of consecutive pieces
IsInfix(u, m) ==
    \E k \in 0..(Len(m) - Len(u)) : SubSeq(m, k + 1, k + Len(u)) = u

\* the endpoint of each accessor's URL
ExpectedEndpoint(name) ==
    IF name = "get_circuits" THEN <<"/circuits.json">>
    ELSE IF name = "get_driver_standings" THEN <<"/driverStandings.json">>
    ELSE <<"/constructorStandings.json">>

\* C8: on every status other than 200 a selector-scoped accessor fails with
\* ErgastInvalidRequest, whose message carries the URL that was requested,
\* base + selector + endpoint; no table is returned.
InvalidRequestCarriesUrl ==
    (pc = "done" /\ call.name \in Accessors /\ reply.status_code # 200)
    => (/\ outcome.kind = "raise"
        /\ outcome.exc = "ErgastInvalidRequest"
        /\ outcome.value = None
        /\ requests[1].url = base_url \o selector \o ExpectedEndpoint(call.name)
        /\ IsInfix(requests[1].url, outcome.msg))

\* a standings accessor under a non-empty selector was answered 404 and raised
InvalidRequestSeen ==
    /\ pc = "done"
    /\ call.name = "get_driver_standings"
    /\ selector # <<>>
    /\ reply.status_code = 404
    /\ outcome.exc = "ErgastInvalidRequest"

\* the session of a fetch_results call is one that binds day and sel
SessionRecognized == call.args[3] \in RecognizedSessions

\* C10 as stated: every call of a single-endpoint function has issued exactly
\* one request when it returns or raises.
ExactlyOneRequestEveryCall ==
    (pc = "done" /\ call.name \in SingleEndpoint) => Len(requests) = 1

\* C10, amended: a call of a single-endpoint function never has more than one
\* request issued; when it returns or raises it has issued exactly one, except
\* fetch_results with an unrecognized session, which raises having issued none.
OneRequestPerCall ==
    call.name \in SingleEndpoint =>
        /\ Len(requests) <= 1
        /\ pc = "await" => Len(requests) = 1
        /\ pc = "done" =>
              Len(requests) = IF call.name = "fetch_results" /\ ~SessionRecognized THEN 0 ELSE 1

\* a standings call that hit an empty StandingsLists ended after its one request
EmptyStandingsAfterOneRequest ==
    /\ pc = "done"
    /\ call.name = "get_driver_standings"
    /\ EmptyStandingsReply
    /\ outcome.exc = "IndexError"
    /\ Len(requests) = 1

-----------------------------------------------------------------------------
(* properties of the normalizer *)

Built == npc \in {"built", "read"}

Rows == Val(frame).rows

HasFloat(row, key) == key \in DOMAIN row /\ Tag(row[key]) = "float"

\* row[key] is the sub-field of sub, or the default when sub lacks it
FieldOrDefault(row, key, sub, field, default) ==
    key \in DOMAIN row /\ row[key] = DictGet(sub, field, default)

\* the derived columns of one record's row are all there, defaults included
Flattened(rec, row) ==
    /\ "Driver" \in DOMAIN rec =>
          /\ FieldOrDefault(row, "Driver", rec["Driver"], "code", Str(<<>>))
          /\ FieldOrDefault(row, "DriverNumber", rec["Driver"], "permanentNumber", Str(<<>>))
    /\ "Constructors" \in DOMAIN rec =>
          /\ "Constructors" \in DOMAIN row
          /\ Tag(row["Constructors"]) = "list"
          /\ Len(Val(row["Constructors"])) = Len(Val(rec["Constructors"]))
          /\ \A j \in 1..Len(Val(row["Constructors"])) :
                Val(row["Constructors"])[j] = DictGet(Val(rec["Constructors"])[j], "name", Str(<<>>))
    /\ "Location" \in DOMAIN rec =>
          /\ "Location" \notin DOMAIN row
          /\ HasFloat(row, "Lat") /\ HasFloat(row, "Long")
          /\ "lat" \notin DOMAIN Val(rec["Location"]) => row["Lat"] = Flt(0)
          /\ "long" \notin DOMAIN Val(rec["Location"]) => row["Long"] = Flt(0)
          /\ FieldOrDefault(row, "Locality", rec["Location"], "locality", Str(<<>>))
          /\ FieldOrDefault(row, "Country", rec["Location"], "country", Str(<<>>))

\* C4: when a Driver, Constructors or Location sub-structure is present, also one
\* lacking some or all of its sub-fields, normalization removes it and produces
\* every derived column, with its default where the sub-field is missing; the
\* call does not fail.
SubStructuresAlwaysFlattened ==
    /\ npc # "failed"
    /\ Built => \A i \in 1..Len(payload) : Flattened(Val(payload[i]), Val(Rows[i]))

\* the list of the very objects handed in, in order
SameObjects == List([k \in 1..Len(response) |-> Ref(response[k])])

\* the objects handed in are as they were before the call
Untouched == \A i \in 1..Len(payload) : heap[response[i]] = payload[i]

\* C6 as stated: for every sequence of records get_ergast_response returns a list
\* whose i-th element is the i-th input record itself, unchanged.
ResponseAlwaysRecovered ==
    npc = "read" => (recovered = SameObjects /\ Untouched)

\* C6, amended: for every non-empty sequence of records get_ergast_response
\* returns the list of the input records themselves, in order, each unchanged;
\* for the empty sequence it returns None.
ResponseRecoveredWhenNonEmpty ==
    npc = "read" =>
        /\ Untouched
        /\ recovered = IF Len(payload) > 0 THEN SameObjects ELSE None

\* two records with sub-structures were normalized and read back
RecoveredTwoRecords ==
    /\ npc = "read"
    /\ Len(payload) = 2
    /\ "Driver" \in DOMAIN Val(payload[1])
    /\ "Location" \in DOMAIN Val(payload[2])
    /\ recovered = List(<<Ref(1), Ref(2)>>)

\* the row the normalizer makes of a record handed in alone
RowAlone(rec) == Val(ErgastResultFrame(<<rec>>, <<1>>).result.value).rows[1]

\* a row without its back-reference
Visible(row) == DictWithout(row, "__ErgastResponse")

====
